---- MODULE Spec2Model ----
(***************************************************************************)
(* PixelMuse (pixelmuse/src/ASCIIPainter.jsx): the ASCII conversion of the *)
(* canonical raster (the hidden "art" canvas) into plain text and coloured *)
(* markup, with the strokes, imports and resizes that write the raster.    *)
(*                                                                         *)
(* Representation.                                                         *)
(*  - A colour is a tuple <<r, g, b>> of channel values 0..255; a raster   *)
(*    is a sequence of rows, each row a sequence of colours.  The alpha    *)
(*    of a canvas is a second plane of values 0..255.                      *)
(*  - A pointer position is a tuple <<x, y>> of canvas coordinates; a      *)
(*    stroke paints the pixels whose centre lies within half the line      *)
(*    width of the segment.                                                *)
(*  - A JavaScript string is a sequence of one-character strings; "\n" is  *)
(*    the newline character.                                               *)
(*  - lineHeightRatio is held in tenths (20 stands for the number 2.0,     *)
(*    14 for the double nearest to 1.4): the slider steps by 0.1.          *)
(*  - JavaScript numbers are IEEE-754 doubles.  The model computes with    *)
(*    exact integers and corrects the two places where the double result   *)
(*    differs from the exact one: Math.floor(cellW * lineHeightRatio)      *)
(*    (table MulRoundsBelow) and Math.round(lum * (chars.length - 1)) at   *)
(*    an exact rounding tie (table TieRoundsBelow).  Both tables list the  *)
(*    inputs of the model's domain (IeeeColours, IeeeLengths, cell widths  *)
(*    up to IeeeMaxCellW) on which the double evaluation of the source     *)
(*    expression falls below the exact value.                              *)
(***************************************************************************)
EXTENDS Integers, Sequences, FiniteSets, TLC

VARIABLES
    winW, winH,                 \* window.innerWidth, window.innerHeight
    smoothing,                  \* the browser's image smoothing algorithm
    canvasW, canvasH, canvasPx, \* canvasRef canvas: width, height, pixels
    canvasAlpha,                \* canvasRef canvas: alpha of each pixel
    artW, artH, artPx,          \* artRef canvas: width, height, pixels
    artAlpha,                   \* artRef canvas: alpha of each pixel
    ghostW, ghostH, ghostPx,    \* ghostRef canvas: width, height, pixels
    drawing,                    \* drawing = useRef(false)
    last,                       \* last = useRef(null)
    brushColor,                 \* useState("#000000")
    brushSize,                  \* useState(8)
    eraser,                     \* useState(false)
    columns,                    \* useState(100)
    lineHeightRatio,            \* useState(2), in tenths
    charset,                    \* useState(" .:-=+*#%@")
    invert,                     \* useState(false)
    densityBias,                \* useState(0)
    ascii,                      \* useState("")
    colorAsciiHtml,             \* useState("")
    showDialog,                 \* useState(false)
    pending,                    \* the images of handleUpload still loading
    asciiFontSize,              \* useMemo over columns, in hundredths of px
    asciiLineHeight,            \* useMemo over asciiFontSize, in hundredths
    doc,                        \* the document buildColorAsciiDocument built
    latest,                     \* what the image chosen last and the strokes
                                \* painted since then compose
    lastOp,                     \* the handler that ran last
    error                       \* the exception that handler ended with

window == <<winW, winH>>
canvas == <<canvasW, canvasH, canvasPx, canvasAlpha>>
art == <<artW, artH, artPx, artAlpha>>
ghost == <<ghostW, ghostH, ghostPx>>
style == <<columns, lineHeightRatio, charset, invert, densityBias>>
result == <<ascii, colorAsciiHtml>>
typography == <<asciiFontSize, asciiLineHeight, doc>>
pen == <<drawing, last, brushColor, brushSize, eraser>>

vars == <<window, smoothing, canvas, art, ghost, pen, style, result,
          showDialog, pending, typography, latest, lastOp, error>>

----------------------------------------------------------------------------
(* Bounds of the model.                                                    *)

MaxW == 6
MaxH == 4
MaxColumns == 8
MaxPending == 1
MaxTypoColumns == 600

(* Program constants.                                                      *)

DensityBiasMin == -100
DensityBiasMax == 100

----------------------------------------------------------------------------
(* Small helpers.                                                          *)

\* null
Null == <<>>

\* No image has been chosen since the raster was last repainted as a whole.
NoWork == [chosen |-> FALSE, px |-> <<>>]

Max(a, b) == IF a >= b THEN a ELSE b
Min(a, b) == IF a <= b THEN a ELSE b

\* The concatenation of a sequence of strings, in order.
RECURSIVE Flatten(_)
Flatten(ss) ==
    IF Len(ss) = 0 THEN <<>>
    ELSE IF Len(ss) = 1 THEN ss[1]
    ELSE LET m == Len(ss) \div 2
         IN  Flatten(SubSeq(ss, 1, m)) \o Flatten(SubSeq(ss, m + 1, Len(ss)))

\* f(lo) + ... + f(hi)
RECURSIVE SumTo(_, _, _)
SumTo(f(_), lo, hi) ==
    IF lo > hi THEN 0
    ELSE IF lo = hi THEN f(lo)
    ELSE LET m == (lo + hi) \div 2
         IN  SumTo(f, lo, m) + SumTo(f, m + 1, hi)

Black == <<0, 0, 0>>
White == <<255, 255, 255>>
Green == <<10, 200, 10>>
Magenta == <<218, 58, 248>>
Emerald == <<0, 204, 68>>
Grey == <<128, 128, 128>>

----------------------------------------------------------------------------
(* Character sets.                                                         *)

\* Two characters the parser does not accept inside a string are written by
\* name: "U+0060" is the backtick of "Ultra Dense", "U+2022" the bullet of
\* "Dot Matrix".  Each stands for one character.
Classic == <<" ", ".", ":", "-", "=", "+", "*", "#", "%", "@">>
UltraDense ==
    <<" ", ".", "'", "U+0060", "^", "\"", ",", ":", ";", "I", "l", "!", "i", ">",
      "<", "~", "+", "_", "-", "?", "]", "[", "}", "{", "1", ")", "(", "|",
      "\\", "/", "t", "f", "j", "r", "x", "n", "u", "v", "c", "z", "X", "Y",
      "U", "J", "C", "L", "Q", "0", "O", "Z", "m", "w", "q", "p", "d", "b",
      "k", "h", "a", "o", "*", "#", "M", "W", "&", "8", "%", "B", "@", "$">>
Blocks == <<" ", "░", "▒", "▓", "█">>
DotMatrix == <<"·", "U+2022", "●", "○", "◦">>
PRESETS == {Classic, UltraDense, Blocks, DotMatrix}

----------------------------------------------------------------------------
(* Grid geometry (toASCII, the first four constants).                      *)

\* <<cellW, tenths>> with cellW <= 129 and tenths in 1..41 for which the
\* double product cellW * (tenths / 10) is just below the exact integer
\* product, so that Math.floor gives one less (45 * 1.4 is 62.99999999999999).
MulRoundsBelow ==
    {<<90, 7>>, <<45, 14>>, <<85, 14>>, <<90, 14>>, <<50, 23>>, <<90, 23>>,
     <<100, 23>>, <<110, 23>>, <<45, 28>>, <<85, 28>>, <<90, 28>>,
     <<30, 41>>, <<50, 41>>, <<60, 41>>, <<90, 41>>, <<100, 41>>,
     <<110, 41>>, <<120, 41>>}

\* Math.floor(cellW * lineHeightRatio)
FloorMul(cw, tenths) ==
    IF <<cw, tenths>> \in MulRoundsBelow
    THEN (cw * tenths) \div 10 - 1
    ELSE (cw * tenths) \div 10

\* A variant of cellW that rounds the quotient up.
cellW_ceil(W, cols) == Max(1, (W + cols - 1) \div cols)

\* Math.max(1, Math.floor(source.width / columns)), for columns >= 1
cellW(W, cols) == Max(1, W \div cols)

\* A variant of cellH that rounds the product up.
cellH_ceil(cw, tenths) == Max(1, (cw * tenths + 9) \div 10)

\* Math.max(1, Math.floor(cellW * lineHeightRatio))
cellH(cw, tenths) == Max(1, FloorMul(cw, tenths))

\* A variant of outW that counts one pixel less.
outW_offByOne(W, cw) == (W - 1) \div cw

\* Math.floor(source.width / cellW)
outW(W, cw) == W \div cw

\* Math.floor(source.height / cellH)
outH(H, ch) == H \div ch

----------------------------------------------------------------------------
(* gctx.drawImage(source, 0, 0, outW, outH) with imageSmoothingEnabled:    *)
(* the whole source is scaled onto outW x outH pixels.  The smoothing      *)
(* algorithm is left to the browser; the model offers the two common ones, *)
(* an area average ("box") and a bilinear sample at the centre of the      *)
(* destination pixel ("bilinear").  Coordinates are zero-based.            *)

Filters == {"box", "bilinear"}

\* n source pixels are mapped onto m destination pixels: the part of source
\* pixel i that falls into destination pixel x, in units of 1/m.
Overlap(i, x, n, m) ==
    Max(0, Min((i + 1) * m, (x + 1) * n) - Max(i * m, x * n))

BoxChannel(px, W, H, ow, oh, x, y, k) ==
    LET ilo == (x * W) \div ow
        ihi == ((x + 1) * W - 1) \div ow
        jlo == (y * H) \div oh
        jhi == ((y + 1) * H - 1) \div oh
        rowSum(j) ==
            SumTo(LAMBDA i : Overlap(i, x, W, ow) * px[j + 1][i + 1][k],
                  ilo, ihi)
        total ==
            SumTo(LAMBDA j : Overlap(j, y, H, oh) * rowSum(j), jlo, jhi)
    IN  (2 * total + W * H) \div (2 * W * H)

BilinearChannel(px, W, H, ow, oh, x, y, k) ==
    LET dx == 2 * ow
        dy == 2 * oh
        sx == (2 * x + 1) * W - ow
        sy == (2 * y + 1) * H - oh
        i0 == sx \div dx
        j0 == sy \div dy
        fx == sx % dx
        fy == sy % dy
        i1 == Min(i0 + 1, W - 1)
        j1 == Min(j0 + 1, H - 1)
        total == (dx - fx) * (dy - fy) * px[j0 + 1][i0 + 1][k]
                 + fx * (dy - fy) * px[j0 + 1][i1 + 1][k]
                 + (dx - fx) * fy * px[j1 + 1][i0 + 1][k]
                 + fx * fy * px[j1 + 1][i1 + 1][k]
    IN  (2 * total + dx * dy) \div (2 * dx * dy)

Channel(filter, px, W, H, ow, oh, x, y, k) ==
    IF filter = "box"
    THEN BoxChannel(px, W, H, ow, oh, x, y, k)
    ELSE BilinearChannel(px, W, H, ow, oh, x, y, k)

\* The pixels of the ghost canvas after drawImage, i.e. getImageData's data.
drawImage(filter, px, W, H, ow, oh) ==
    [y \in 1..oh |->
        [x \in 1..ow |->
            <<Channel(filter, px, W, H, ow, oh, x - 1, y - 1, 1),
              Channel(filter, px, W, H, ow, oh, x - 1, y - 1, 2),
              Channel(filter, px, W, H, ow, oh, x - 1, y - 1, 3)>>]]

\* A canvas whose width or height was just assigned: transparent black.
Blank(W, H) == [y \in 1..H |-> [x \in 1..W |-> Black]]

\* A raster of one colour.
Solid(W, H, c) == [y \in 1..H |-> [x \in 1..W |-> c]]

\* The alpha plane of a canvas after fillRect(0, 0, W, H) with an opaque
\* colour.
Opaque(W, H) == [y \in 1..H |-> [x \in 1..W |-> 255]]

\* drawDots(ctx, width, height): the background "#f5f5f5".  The dots, arcs of
\* radius 0.6 every 20 pixels from (10, 10), are not modelled: nothing reads
\* the colours of the visible canvas.
DotsBackground == <<245, 245, 245>>
drawDots(W, H) == Solid(W, H, DotsBackground)

----------------------------------------------------------------------------
(* Quantizer (toASCII, the body of the inner loop).                        *)

\* The domain of the table below: every grey and three named colours, the
\* charset lengths 1, 2, 5, 10 and 70, every densityBias of the slider.
IeeeColours ==
    {<<v, v, v>> : v \in 0..255}
        \cup {<<10, 200, 10>>, <<218, 58, 248>>, <<0, 204, 68>>}
IeeeLengths == {1, 2, 5, 10, 70}

\* <<colour, densityBias, invert, chars.length>> of that domain for which
\* lum * (chars.length - 1) is exactly k + 1/2 and the double evaluation of
\* lines 451-465 yields a value just below it, so that Math.round gives k.
TieRoundsBelow ==
    {<<<<17, 17, 17>>, 10, FALSE, 10>>, <<<<17, 17, 17>>, 10, FALSE, 70>>,
     <<<<34, 34, 34>>, 70, TRUE, 10>>, <<<<34, 34, 34>>, 70, TRUE, 70>>,
     <<<<85, 85, 85>>, 50, TRUE, 10>>, <<<<85, 85, 85>>, 50, TRUE, 70>>,
     <<<<119, 119, 119>>, -30, FALSE, 10>>, <<<<119, 119, 119>>, -30, FALSE, 70>>,
     <<<<136, 136, 136>>, 30, TRUE, 10>>, <<<<136, 136, 136>>, 30, TRUE, 70>>,
     <<<<170, 170, 170>>, -50, TRUE, 10>>, <<<<170, 170, 170>>, -50, TRUE, 70>>,
     <<<<187, 187, 187>>, 10, TRUE, 10>>, <<<<187, 187, 187>>, 10, TRUE, 70>>,
     <<<<204, 204, 204>>, -30, TRUE, 2>>, <<<<204, 204, 204>>, -30, TRUE, 10>>,
     <<<<204, 204, 204>>, -30, TRUE, 70>>, <<<<221, 221, 221>>, -70, FALSE, 10>>,
     <<<<221, 221, 221>>, -70, FALSE, 70>>, <<<<238, 238, 238>>, -10, FALSE, 10>>,
     <<<<238, 238, 238>>, -10, FALSE, 70>>, <<<<218, 58, 248>>, 0, FALSE, 2>>,
     <<<<218, 58, 248>>, 0, FALSE, 10>>, <<<<218, 58, 248>>, 0, FALSE, 70>>,
     <<<<0, 204, 68>>, 0, TRUE, 2>>, <<<<0, 204, 68>>, 0, TRUE, 10>>,
     <<<<0, 204, 68>>, 0, TRUE, 70>>}

\* 0.299 * r + 0.587 * g + 0.114 * b, in thousandths
Lum1000(c) == 299 * c[1] + 587 * c[2] + 114 * c[3]

\* The double value of that sum minus the double nearest to the exact sum, in
\* units of 2^-46, for the sample colours of the model (black, white, grey
\* 128 and the three named colours); two colours of equal exact luminance are
\* ordered by it.
LumOffset(c) ==
    CASE c = <<10, 200, 10>> -> -1
      [] c = <<218, 58, 248>> -> 1
      [] c = <<0, 204, 68>> -> -1
      [] c = <<128, 128, 128>> -> -1
      [] OTHER -> 0

\* lum(a) <= lum(b) for the values of lum after line 454
LumLeq(a, b) ==
    \/ Lum1000(a) < Lum1000(b)
    \/ Lum1000(a) = Lum1000(b) /\ LumOffset(a) <= LumOffset(b)

\* A variant of NormLum that subtracts the bias.
NormLum_biasSubtracted(c, bias) ==
    Min(255000, Max(0, Lum1000(c) - 2550 * bias))

\* A variant of NormLum without the clamp to [0, 1].
NormLum_noClamp(c, bias) == Lum1000(c) + 2550 * bias

\* Math.min(1, Math.max(0, lum / 255 + densityBias / 100)), in units of
\* 1/255000
NormLum(c, bias) == Min(255000, Max(0, Lum1000(c) + 2550 * bias))

\* Variants of OrientedLum: one never flips, one flips when inverted.
OrientedLum_noFlip(c, bias, inv) == NormLum(c, bias)
OrientedLum_flipInverted(c, bias, inv) ==
    IF inv THEN 255000 - NormLum(c, bias) ELSE NormLum(c, bias)

\* if (!invert) lum = 1 - lum
OrientedLum(c, bias, inv) ==
    IF ~inv THEN 255000 - NormLum(c, bias) ELSE NormLum(c, bias)

\* Variants of charIndex: one rounds down, one scales by chars.length.
charIndex_floor(c, bias, inv, n) ==
    (OrientedLum(c, bias, inv) * (n - 1)) \div 255000
charIndex_length(c, bias, inv, n) ==
    (2 * OrientedLum(c, bias, inv) * n + 255000) \div 510000

\* Math.round(lum * (chars.length - 1)): Math.round rounds a tie upwards.
charIndex(c, bias, inv, n) ==
    LET num   == OrientedLum(c, bias, inv) * (n - 1)
        exact == (2 * num + 255000) \div 510000
        tie   == (2 * num) % 510000 = 255000
    IN  IF tie /\ <<c, bias, inv, n>> \in TieRoundsBelow
        THEN exact - 1
        ELSE exact

\* What string concatenation makes of the value undefined.
Undefined == <<"u", "n", "d", "e", "f", "i", "n", "e", "d">>

\* chars[ci], as the string that  row += char  appends
charAt(chars, ci) ==
    IF ci \in 0..(Len(chars) - 1) THEN <<chars[ci + 1]>> ELSE Undefined

----------------------------------------------------------------------------
(* Serializer.                                                             *)

\* A variant of escapeForHtml that replaces every character of its argument.
escapeForHtml_each(char) ==
    Flatten([i \in 1..Len(char) |->
        IF char[i] = "&" THEN <<"&", "a", "m", "p", ";">>
        ELSE IF char[i] = "<" THEN <<"&", "l", "t", ";">>
        ELSE IF char[i] = ">" THEN <<"&", "g", "t", ";">>
        ELSE IF char[i] = "\"" THEN <<"&", "q", "u", "o", "t", ";">>
        ELSE IF char[i] = "'" THEN <<"&", "#", "3", "9", ";">>
        ELSE IF char[i] = " " THEN <<"&", "n", "b", "s", "p", ";">>
        ELSE <<char[i]>>])

\* A variant of escapeForHtml that leaves spaces and quotes alone.
escapeForHtml_partial(char) ==
    IF char = <<"&">> THEN <<"&", "a", "m", "p", ";">>
    ELSE IF char = <<"<">> THEN <<"&", "l", "t", ";">>
    ELSE IF char = <<">">> THEN <<"&", "g", "t", ";">>
    ELSE char

escapeForHtml(char) ==
    IF char = <<"&">> THEN <<"&", "a", "m", "p", ";">>
    ELSE IF char = <<"<">> THEN <<"&", "l", "t", ";">>
    ELSE IF char = <<">">> THEN <<"&", "g", "t", ";">>
    ELSE IF char = <<"\"">> THEN <<"&", "q", "u", "o", "t", ";">>
    ELSE IF char = <<"'">> THEN <<"&", "#", "3", "9", ";">>
    ELSE IF char = <<" ">> THEN <<"&", "n", "b", "s", "p", ";">>
    ELSE char

Digit(d) == <<"0", "1", "2", "3", "4", "5", "6", "7", "8", "9">>[d + 1]

\* `${r}` for a byte r
RECURSIVE NumberToString(_)
NumberToString(n) ==
    IF n < 10 THEN <<Digit(n)>>
    ELSE NumberToString(n \div 10) \o <<Digit(n % 10)>>

SpanOpen ==
    <<"<", "s", "p", "a", "n", " ", "s", "t", "y", "l", "e", "=", "\"",
      "c", "o", "l", "o", "r", ":", " ", "r", "g", "b", "(">>
SpanMid == <<")", "\"", ">">>
SpanClose == <<"<", "/", "s", "p", "a", "n", ">">>

\* `<span style="color: rgb(${r}, ${g}, ${b})">${escapeForHtml(char)}</span>`
Span(c, char) ==
    SpanOpen \o NumberToString(c[1]) \o <<",", " ">>
        \o NumberToString(c[2]) \o <<",", " ">>
        \o NumberToString(c[3]) \o SpanMid
        \o escapeForHtml(char) \o SpanClose

\* The character of cell (x, y) of the sampled data (one-based here).
cellChar(data, x, y, chars, bias, inv) ==
    charAt(chars, charIndex(data[y][x], bias, inv, Len(chars)))

\* result: for each y, row + "\n"
asciiOf(data, ow, oh, chars, bias, inv) ==
    Flatten([y \in 1..oh |->
        Flatten([x \in 1..ow |-> cellChar(data, x, y, chars, bias, inv)])
            \o <<"\n">>])

\* colorResult: for each y, colorRow + "\n"
colorAsciiOf(data, ow, oh, chars, bias, inv) ==
    Flatten([y \in 1..oh |->
        Flatten([x \in 1..ow |->
            Span(data[y][x], cellChar(data, x, y, chars, bias, inv))])
            \o <<"\n">>])

----------------------------------------------------------------------------
(* The typography of the result: the font size derived from columns, the  *)
(* line height derived from the font size, and the document that wraps    *)
(* the markup.  Font sizes and line heights are held in hundredths (1200   *)
(* stands for 12, 110 for 1.1); for the columns and font sizes of the      *)
(* model the double results of the source expressions, rounded by          *)
(* toFixed(2), are the exactly rounded values computed here.               *)

ASCII_TARGET_WIDTH == 900
ASCII_MAX_FONT_SIZE == 12
ASCII_MIN_FONT_SIZE == 3
\* 0.6, in tenths
ASCII_CHAR_ASPECT_RATIO == 6
\* 1.1, in hundredths
ASCII_BASE_LINE_HEIGHT == 110

\* A variant of toFixed2 that cuts the digits after the second decimal.
toFixed2_truncated(num, den) == (100 * num) \div den

\* Number(x.toFixed(2)) for x = num / den >= 0, in hundredths.
toFixed2(num, den) == (200 * num + den) \div (2 * den)

\* widthLimitedFont = TARGET_WIDTH / (safeColumns * CHAR_ASPECT_RATIO) with
\* safeColumns = Math.max(1, columns), as the fraction <<numerator,
\* denominator>>
widthLimitedFont(cols) ==
    LET safeColumns == Max(1, cols)
    IN  <<10 * ASCII_TARGET_WIDTH, safeColumns * ASCII_CHAR_ASPECT_RATIO>>

\* asciiFontSize without the lower clamp Math.max(MIN, ...)
asciiFontSizeOf_noFloor(cols) ==
    LET num == widthLimitedFont(cols)[1]
        den == widthLimitedFont(cols)[2]
    IN  IF num >= ASCII_MAX_FONT_SIZE * den THEN 100 * ASCII_MAX_FONT_SIZE
        ELSE toFixed2(num, den)

\* asciiFontSize: clampedFont = Math.max(MIN, Math.min(MAX,
\* widthLimitedFont)), then Number(clampedFont.toFixed(2)); in hundredths
asciiFontSizeOf(cols) ==
    LET num == widthLimitedFont(cols)[1]
        den == widthLimitedFont(cols)[2]
    IN  IF num >= ASCII_MAX_FONT_SIZE * den THEN 100 * ASCII_MAX_FONT_SIZE
        ELSE IF num <= ASCII_MIN_FONT_SIZE * den
             THEN 100 * ASCII_MIN_FONT_SIZE
             ELSE toFixed2(num, den)

\* asciiLineHeight: BASE_LINE_HEIGHT * Math.max(scale, 0.75) with scale =
\* asciiFontSize / MAX_FONT_SIZE, toFixed(2); fontSize and the result in
\* hundredths
asciiLineHeightOf(fontSize) ==
    LET scale == Max(fontSize, 75 * ASCII_MAX_FONT_SIZE)
    IN  toFixed2(ASCII_BASE_LINE_HEIGHT * scale, 10000 * ASCII_MAX_FONT_SIZE)

\* buildColorAsciiDocument(content, requestedFontSize): the font-size and
\* the line-height written into the document's style, and its content.
\* requestedFontSize is given in thousandths, fontSize and lineHeight are
\* in hundredths.
NoDocument == [fontSize |-> 0, lineHeight |-> 0, content |-> <<>>]

\* the document with the line-height scaled by fontSize / MAX alone
buildColorAsciiDocument_noFloor(content, requestedFontSize) ==
    LET normalizedFontSize ==
            Max(1000 * ASCII_MIN_FONT_SIZE,
                Min(1000 * ASCII_MAX_FONT_SIZE, requestedFontSize))
        fontSize == toFixed2(normalizedFontSize, 1000)
        lineHeight ==
            toFixed2(ASCII_BASE_LINE_HEIGHT * fontSize,
                     10000 * ASCII_MAX_FONT_SIZE)
    IN  [fontSize |-> fontSize, lineHeight |-> lineHeight,
         content |-> content]

buildColorAsciiDocument(content, requestedFontSize) ==
    LET normalizedFontSize ==
            Max(1000 * ASCII_MIN_FONT_SIZE,
                Min(1000 * ASCII_MAX_FONT_SIZE, requestedFontSize))
        fontSize == toFixed2(normalizedFontSize, 1000)
        lineHeight ==
            toFixed2(ASCII_BASE_LINE_HEIGHT
                         * Max(75 * ASCII_MAX_FONT_SIZE, fontSize),
                     10000 * ASCII_MAX_FONT_SIZE)
    IN  [fontSize |-> fontSize, lineHeight |-> lineHeight,
         content |-> content]

----------------------------------------------------------------------------
(* The handler of "Generate ASCII".                                        *)
(* drawImage throws InvalidStateError when the source canvas has no        *)
(* pixels, getImageData throws IndexSizeError when outW or outH is 0; both *)
(* happen after g.width and g.height were assigned, and end the handler.   *)

\* A variant of toASCII that scales the art canvas in place instead of
\* drawing it onto the ghost canvas.
toASCII_scratchIsArt ==
    LET filter == smoothing
        cw == cellW(artW, columns)
        ch == cellH(cw, lineHeightRatio)
        ow == outW(artW, cw)
        oh == outH(artH, ch)
    IN  /\ artW' = ow
        /\ artH' = oh
        /\ artAlpha' = Opaque(ow, oh)
        /\ lastOp' = "toASCII"
        /\ IF artW = 0 \/ artH = 0
           THEN /\ error' = "InvalidStateError"
                /\ artPx' = Blank(ow, oh)
                /\ UNCHANGED <<ascii, colorAsciiHtml, showDialog>>
           ELSE IF ow = 0 \/ oh = 0
           THEN /\ error' = "IndexSizeError"
                /\ artPx' = Blank(ow, oh)
                /\ UNCHANGED <<ascii, colorAsciiHtml, showDialog>>
           ELSE /\ error' = "none"
                /\ artPx' = drawImage(filter, artPx, artW, artH, ow, oh)
                /\ ascii' =
                     asciiOf(artPx', ow, oh, charset, densityBias, invert)
                /\ colorAsciiHtml' =
                     colorAsciiOf(artPx', ow, oh, charset, densityBias,
                                  invert)
                /\ showDialog' = TRUE
        /\ UNCHANGED <<pending, typography>>
        /\ UNCHANGED <<pen, smoothing, latest>>
        /\ UNCHANGED <<window, canvas, ghost, style>>

toASCII ==
    LET filter == smoothing
        cw == cellW(artW, columns)
        ch == cellH(cw, lineHeightRatio)
        ow == outW(artW, cw)
        oh == outH(artH, ch)
    IN  /\ ghostW' = ow
        /\ ghostH' = oh
        /\ lastOp' = "toASCII"
        /\ IF artW = 0 \/ artH = 0
           THEN /\ error' = "InvalidStateError"
                /\ ghostPx' = Blank(ow, oh)
                /\ UNCHANGED <<ascii, colorAsciiHtml, showDialog>>
           ELSE IF ow = 0 \/ oh = 0
           THEN /\ error' = "IndexSizeError"
                /\ ghostPx' = Blank(ow, oh)
                /\ UNCHANGED <<ascii, colorAsciiHtml, showDialog>>
           ELSE /\ error' = "none"
                /\ ghostPx' = drawImage(filter, artPx, artW, artH, ow, oh)
                \* data = gctx.getImageData(0, 0, outW, outH).data
                /\ ascii' =
                     asciiOf(ghostPx', ow, oh, charset, densityBias, invert)
                /\ colorAsciiHtml' =
                     colorAsciiOf(ghostPx', ow, oh, charset, densityBias,
                                  invert)
                /\ showDialog' = TRUE
        /\ UNCHANGED <<pending, typography>>
        /\ UNCHANGED <<pen, smoothing, latest>>
        /\ UNCHANGED <<window, canvas, art, style>>

----------------------------------------------------------------------------
(* The application: the component after mount, and its event handlers.     *)

\* Window sizes <<innerWidth, innerHeight>> of the model; a window can have
\* no width (a hidden or collapsed frame).
Viewports == {<<4, 2>>, <<0, 2>>}

\* The ranges of the Columns and Line Height sliders (min, max; the line
\* height in tenths).
ColumnsMin == 40
ColumnsMax == 400
LineHeightMin == 10
LineHeightMax == 30

\* The value a Slider reports to onValueChange for a requested value v: the
\* value held to the slider's range.
SliderValue(v, lo, hi) == Max(lo, Min(hi, v))

\* The values the style controls are moved to; for the two sliders of the
\* grid, requests below the range as well.
ColumnChoices == {0, 100}
LineHeightChoices == {0, 20, 30}
CharsetChoices == {Classic, Blocks}
DensityBiasChoices == {0, 100}

\* The component's initial state and the first run of the resize effect.
Init ==
    /\ \E vp \in Viewports : winW = vp[1] /\ winH = vp[2]
    /\ canvasW = winW /\ canvasH = winH
    /\ canvasPx = drawDots(winW, winH)
    /\ artW = winW /\ artH = winH
    /\ artPx = Solid(winW, winH, White)
    /\ canvasAlpha = Opaque(winW, winH)
    /\ artAlpha = Opaque(winW, winH)
    /\ drawing = FALSE
    /\ last = Null
    /\ brushColor = Black
    /\ brushSize = 8
    /\ eraser = FALSE
    /\ latest = NoWork
    /\ smoothing \in Filters
    /\ ghostW = winW /\ ghostH = winH
    /\ ghostPx = Blank(winW, winH)
    /\ columns = 100
    /\ lineHeightRatio = 20
    /\ charset = Classic
    /\ invert = FALSE
    /\ densityBias = 0
    /\ ascii = <<>>
    /\ colorAsciiHtml = <<>>
    /\ showDialog = FALSE
    /\ pending = <<>>
    /\ asciiFontSize = asciiFontSizeOf(columns)
    /\ asciiLineHeight = asciiLineHeightOf(asciiFontSize)
    /\ doc = NoDocument
    /\ lastOp = "mount"
    /\ error = "none"

\* The window's resize event, handled by resize().
resize ==
    \E vp \in Viewports :
        /\ winW' = vp[1] /\ winH' = vp[2]
        /\ canvasW' = vp[1] /\ canvasH' = vp[2]
        /\ canvasPx' = drawDots(vp[1], vp[2])
        /\ artW' = vp[1] /\ artH' = vp[2]
        /\ artPx' = Solid(vp[1], vp[2], White)
        /\ ghostW' = vp[1] /\ ghostH' = vp[2]
        /\ ghostPx' = Blank(vp[1], vp[2])
        /\ lastOp' = "resize"
        /\ error' = "none"
        /\ canvasAlpha' = Opaque(vp[1], vp[2])
        /\ artAlpha' = Opaque(vp[1], vp[2])
        /\ latest' = NoWork
        /\ UNCHANGED <<pen, smoothing>>
        /\ UNCHANGED <<pending, typography, style, result, showDialog>>

\* A variant of "Clear" that redraws the visible canvas and empties the
\* results but leaves the art canvas as it is.
clearCanvas_visibleOnly ==
    /\ canvasPx' = drawDots(canvasW, canvasH)
    /\ ascii' = <<>>
    /\ colorAsciiHtml' = <<>>
    /\ lastOp' = "clearCanvas"
    /\ error' = "none"
    /\ canvasAlpha' = Opaque(canvasW, canvasH)
    /\ latest' = NoWork
    /\ UNCHANGED <<pending, typography>>
    /\ UNCHANGED <<pen, smoothing>>
    /\ UNCHANGED <<window, canvasW, canvasH, art, ghost, style, showDialog>>

\* A variant of "Clear" that leaves the coloured result as it is.
clearCanvas_keepsMarkup ==
    /\ canvasPx' = drawDots(canvasW, canvasH)
    /\ artPx' = Solid(artW, artH, White)
    /\ ascii' = <<>>
    /\ lastOp' = "clearCanvas"
    /\ error' = "none"
    /\ canvasAlpha' = Opaque(canvasW, canvasH)
    /\ artAlpha' = Opaque(artW, artH)
    /\ latest' = NoWork
    /\ UNCHANGED <<pending, typography>>
    /\ UNCHANGED <<pen, smoothing>>
    /\ UNCHANGED <<window, canvasW, canvasH, artW, artH, ghost, style,
                   colorAsciiHtml, showDialog>>

\* "Clear"
clearCanvas ==
    /\ canvasPx' = drawDots(canvasW, canvasH)
    /\ artPx' = Solid(artW, artH, White)
    /\ ascii' = <<>>
    /\ colorAsciiHtml' = <<>>
    /\ lastOp' = "clearCanvas"
    /\ error' = "none"
    /\ canvasAlpha' = Opaque(canvasW, canvasH)
    /\ artAlpha' = Opaque(artW, artH)
    /\ latest' = NoWork
    /\ UNCHANGED <<pending, typography>>
    /\ UNCHANGED <<pen, smoothing>>
    /\ UNCHANGED <<window, canvasW, canvasH, artW, artH, ghost, style,
                   showDialog>>

\* The style controls.
setColumns ==
    \E v \in ColumnChoices :
        /\ SliderValue(v, ColumnsMin, ColumnsMax) # columns
        /\ columns' = SliderValue(v, ColumnsMin, ColumnsMax)
        \* the render that follows recomputes the two memos
        /\ asciiFontSize' = asciiFontSizeOf(columns')
        /\ asciiLineHeight' = asciiLineHeightOf(asciiFontSize')
        /\ lastOp' = "setColumns"
        /\ error' = "none"
        /\ UNCHANGED <<pending, doc>>
        /\ UNCHANGED <<pen, smoothing, latest>>
        /\ UNCHANGED <<window, canvas, art, ghost, lineHeightRatio, charset,
                       invert, densityBias, result, showDialog>>

setLineHeightRatio ==
    \E v \in LineHeightChoices :
        /\ SliderValue(v, LineHeightMin, LineHeightMax) # lineHeightRatio
        /\ lineHeightRatio' = SliderValue(v, LineHeightMin, LineHeightMax)
        /\ lastOp' = "setLineHeightRatio"
        /\ error' = "none"
        /\ UNCHANGED <<pending, typography>>
        /\ UNCHANGED <<pen, smoothing, latest>>
        /\ UNCHANGED <<window, canvas, art, ghost, columns, charset, invert,
                       densityBias, result, showDialog>>

setCharset ==
    \E v \in CharsetChoices \ {charset} :
        /\ charset' = v
        /\ lastOp' = "setCharset"
        /\ error' = "none"
        /\ UNCHANGED <<pending, typography>>
        /\ UNCHANGED <<pen, smoothing, latest>>
        /\ UNCHANGED <<window, canvas, art, ghost, columns, lineHeightRatio,
                       invert, densityBias, result, showDialog>>

setInvert ==
    /\ invert' = ~invert
    /\ lastOp' = "setInvert"
    /\ error' = "none"
    /\ UNCHANGED <<pending, typography>>
    /\ UNCHANGED <<pen, smoothing, latest>>
    /\ UNCHANGED <<window, canvas, art, ghost, columns, lineHeightRatio,
                   charset, densityBias, result, showDialog>>

setDensityBias ==
    \E v \in DensityBiasChoices \ {densityBias} :
        /\ densityBias' = v
        /\ lastOp' = "setDensityBias"
        /\ error' = "none"
        /\ UNCHANGED <<pending, typography>>
        /\ UNCHANGED <<pen, smoothing, latest>>
        /\ UNCHANGED <<window, canvas, art, ghost, columns, lineHeightRatio,
                       charset, invert, result, showDialog>>

\* The result dialog is closed (onOpenChange).
setShowDialog ==
    /\ showDialog
    /\ showDialog' = FALSE
    /\ lastOp' = "setShowDialog"
    /\ error' = "none"
    /\ UNCHANGED <<pending, typography>>
    /\ UNCHANGED <<pen, smoothing, latest>>
    /\ UNCHANGED <<window, canvas, art, ghost, style, result>>

----------------------------------------------------------------------------
(* "Import Image": handleUpload starts the load of the chosen file; the    *)
(* browser later calls img.onload or img.onerror, in any order for         *)
(* different files.                                                        *)
(* An image is a square of one colour c and alpha a; a file is an image and *)
(* whether it decodes.  For a square image and the window sizes of the     *)
(* model the rectangle of ctx.drawImage(img, offsetX, offsetY, newW, newH) *)
(* lies on whole pixels.                                                   *)

Images ==
    {[w |-> 1, h |-> 1, c |-> Black, a |-> 128],
     [w |-> 2, h |-> 2, c |-> Green, a |-> 255]}
Files ==
    {[img |-> i, ok |-> TRUE] : i \in Images}
        \cup {[img |-> [w |-> 0, h |-> 0, c |-> Black, a |-> 0], ok |-> FALSE]}

\* globalCompositeOperation "source-over": a source of colour src and alpha
\* a over a destination of colour dst and alpha 255, and the alpha that
\* results over a destination of alpha dstA.
Over(src, a, dst) ==
    [k \in 1..3 |-> (a * src[k] + (255 - a) * dst[k] + 127) \div 255]
AlphaOver(a, dstA) == (255 * a + (255 - a) * dstA + 127) \div 255

\* ratio = Math.min(c.width / img.width, c.height / img.height) and
\* newW = img.width * ratio, newH = img.height * ratio: for a square image
\* both are the smaller side of the canvas.
newW(cw, ch, img) == Min((cw * img.w) \div img.w, (ch * img.w) \div img.h)
newH(cw, ch, img) == Min((cw * img.h) \div img.w, (ch * img.h) \div img.h)
offsetX(cw, ch, img) == (cw - newW(cw, ch, img)) \div 2
offsetY(cw, ch, img) == (ch - newH(cw, ch, img)) \div 2

\* ctx.drawImage(img, offsetX, offsetY, newW, newH) on pixels px of a W x H
\* canvas.
InImage(x, y, ox, oy, nw, nh) ==
    x >= ox /\ x < ox + nw /\ y >= oy /\ y < oy + nh

paintImage(px, W, H, img, ox, oy, nw, nh) ==
    [y \in 1..H |-> [x \in 1..W |->
        IF InImage(x - 1, y - 1, ox, oy, nw, nh)
        THEN Over(img.c, img.a, px[y][x])
        ELSE px[y][x]]]

\* The alpha plane after that drawImage.
paintImageAlpha(alpha, W, H, img, ox, oy, nw, nh) ==
    [y \in 1..H |-> [x \in 1..W |->
        IF InImage(x - 1, y - 1, ox, oy, nw, nh)
        THEN AlphaOver(img.a, alpha[y][x])
        ELSE alpha[y][x]]]

\* handleUpload(file), up to img.src = url
handleUpload ==
    \E file \in Files :
        /\ Len(pending) < MaxPending
        /\ pending' = Append(pending, file)
        /\ latest' =
              IF file.ok
              THEN [chosen |-> TRUE,
                    px |-> paintImage(Solid(artW, artH, White), artW, artH,
                                      file.img,
                                      offsetX(canvasW, canvasH, file.img),
                                      offsetY(canvasW, canvasH, file.img),
                                      newW(canvasW, canvasH, file.img),
                                      newH(canvasW, canvasH, file.img))]
              ELSE latest
        /\ lastOp' = "handleUpload"
        /\ error' = "none"
        /\ UNCHANGED typography
        /\ UNCHANGED <<pen, smoothing>>
        /\ UNCHANGED <<window, canvas, art, ghost, style, result, showDialog>>

\* The sequence without its i-th element.
Without(seq, i) == SubSeq(seq, 1, i - 1) \o SubSeq(seq, i + 1, Len(seq))

\* img.onload
imgOnload ==
    \E i \in 1..Len(pending) :
        LET img == pending[i].img
            nw == newW(canvasW, canvasH, img)
            nh == newH(canvasW, canvasH, img)
            ox == offsetX(canvasW, canvasH, img)
            oy == offsetY(canvasW, canvasH, img)
        IN  /\ pending[i].ok
            /\ canvasPx' = paintImage(drawDots(canvasW, canvasH), canvasW,
                                      canvasH, img, ox, oy, nw, nh)
            /\ canvasAlpha' = paintImageAlpha(Opaque(canvasW, canvasH),
                                               canvasW, canvasH, img, ox, oy,
                                               nw, nh)
            /\ artPx' = paintImage(Solid(artW, artH, White), artW, artH, img,
                                   ox, oy, nw, nh)
            /\ artAlpha' = paintImageAlpha(Opaque(artW, artH), artW, artH,
                                            img, ox, oy, nw, nh)
            /\ pending' = Without(pending, i)
            /\ lastOp' = "imgOnload"
            /\ error' = "none"
            /\ UNCHANGED typography
            /\ UNCHANGED <<pen, smoothing, latest>>
            /\ UNCHANGED <<window, canvasW, canvasH, artW, artH, ghost, style,
                           result, showDialog>>

\* A variant of img.onerror that repaints the canvases as "Clear" does.
imgOnerror_repaints ==
    \E i \in 1..Len(pending) :
        /\ ~pending[i].ok
        /\ pending' = Without(pending, i)
        /\ canvasPx' = drawDots(canvasW, canvasH)
        /\ canvasAlpha' = Opaque(canvasW, canvasH)
        /\ artPx' = Solid(artW, artH, White)
        /\ artAlpha' = Opaque(artW, artH)
        /\ lastOp' = "imgOnerror"
        /\ error' = "none"
        /\ UNCHANGED typography
        /\ UNCHANGED <<pen, smoothing, latest>>
        /\ UNCHANGED <<window, canvasW, canvasH, artW, artH, ghost, style,
                       result, showDialog>>

\* img.onerror
imgOnerror ==
    \E i \in 1..Len(pending) :
        /\ ~pending[i].ok
        /\ pending' = Without(pending, i)
        /\ lastOp' = "imgOnerror"
        /\ error' = "none"
        /\ UNCHANGED typography
        /\ UNCHANGED <<pen, smoothing, latest>>
        /\ UNCHANGED <<window, canvas, art, ghost, style, result, showDialog>>

----------------------------------------------------------------------------
(* Drawing: the pointer handlers of the visible canvas and drawLine.       *)
(* A pointer position is a point <<x, y>> of the canvas in whole pixels;   *)
(* pixel (i, j) has its centre at (i + 1/2, j + 1/2).  A stroke with round *)
(* caps paints the pixels whose centre is within lineWidth / 2 of the      *)
(* segment; the blending of partly covered pixels at its edge is not       *)
(* modelled.  Whether a segment of length 0 paints a dot is left to the    *)
(* browser.                                                                *)

Positions == {<<0, 0>>, <<2, 0>>}

\* The range of the Brush Size slider, and the values the brush controls
\* are moved to.
BrushSizeMin == 1
BrushSizeMax == 32
BrushSizeChoices == {2, 8}
BrushColorChoices == {Black, Green}

\* The centre of pixel (i, j) is within size / 2 of the segment from A to B
\* (coordinates doubled to stay in whole numbers).
Hit(i, j, A, B, size) ==
    LET ax == 2 * A[1]
        ay == 2 * A[2]
        bx == 2 * B[1]
        by == 2 * B[2]
        cx == 2 * i + 1
        cy == 2 * j + 1
        dot == (cx - ax) * (bx - ax) + (cy - ay) * (by - ay)
        len2 == (bx - ax) * (bx - ax) + (by - ay) * (by - ay)
        w2 == (cx - ax) * (cx - ax) + (cy - ay) * (cy - ay)
    IN  IF len2 = 0 \/ dot <= 0 THEN w2 <= size * size
        ELSE IF dot >= len2
             THEN (cx - bx) * (cx - bx) + (cy - by) * (cy - by) <= size * size
             ELSE w2 * len2 - dot * dot <= size * size * len2

\* beginPath, moveTo(x1, y1), lineTo(x2, y2), stroke on a plane px of a W x H
\* canvas, writing the value v; dots tells whether a segment of length 0
\* is painted.
stroke(px, W, H, A, B, size, v, dots) ==
    [y \in 1..H |-> [x \in 1..W |->
        IF (A # B \/ dots) /\ Hit(x - 1, y - 1, A, B, size)
        THEN v
        ELSE px[y][x]]]

\* A variant of drawLine that erases on the art canvas as on the visible
\* one, with "destination-out".
drawLine_erasesArt(A, B) ==
    \E dots \in BOOLEAN :
        /\ canvasPx' = stroke(canvasPx, canvasW, canvasH, A, B, brushSize,
                              IF eraser THEN Black ELSE brushColor, dots)
        /\ canvasAlpha' = stroke(canvasAlpha, canvasW, canvasH, A, B,
                                 brushSize, IF eraser THEN 0 ELSE 255, dots)
        /\ artPx' = stroke(artPx, artW, artH, A, B, brushSize,
                           IF eraser THEN Black ELSE brushColor, dots)
        /\ artAlpha' = stroke(artAlpha, artW, artH, A, B, brushSize,
                              IF eraser THEN 0 ELSE 255, dots)
        /\ latest' =
              IF latest.chosen
              THEN [latest EXCEPT !.px =
                        stroke(@, artW, artH, A, B, brushSize,
                               IF eraser THEN White ELSE brushColor, dots)]
              ELSE latest

\* A variant of drawLine that paints the visible canvas only.
drawLine_canvasOnly(A, B) ==
    \E dots \in BOOLEAN :
        /\ canvasPx' = stroke(canvasPx, canvasW, canvasH, A, B, brushSize,
                              IF eraser THEN Black ELSE brushColor, dots)
        /\ canvasAlpha' = stroke(canvasAlpha, canvasW, canvasH, A, B,
                                 brushSize, IF eraser THEN 0 ELSE 255, dots)
        /\ UNCHANGED <<artPx, artAlpha, latest>>

\* drawLine(x1, y1, x2, y2): on the visible canvas the eraser removes the
\* pixels ("destination-out" leaves them transparent), on the art canvas it
\* paints them white.
drawLine(A, B) ==
    \E dots \in BOOLEAN :
        /\ canvasPx' = stroke(canvasPx, canvasW, canvasH, A, B, brushSize,
                              IF eraser THEN Black ELSE brushColor, dots)
        /\ canvasAlpha' = stroke(canvasAlpha, canvasW, canvasH, A, B,
                                 brushSize, IF eraser THEN 0 ELSE 255, dots)
        /\ artPx' = stroke(artPx, artW, artH, A, B, brushSize,
                           IF eraser THEN White ELSE brushColor, dots)
        /\ artAlpha' = stroke(artAlpha, artW, artH, A, B, brushSize, 255,
                              dots)
        /\ latest' =
              IF latest.chosen
              THEN [latest EXCEPT !.px =
                        stroke(@, artW, artH, A, B, brushSize,
                               IF eraser THEN White ELSE brushColor, dots)]
              ELSE latest

\* getPos(e) of an event over the canvas
OnCanvas(pos) == pos[1] <= canvasW /\ pos[2] <= canvasH /\ canvasW >= 1

\* What the handlers of the pointer events leave alone.
PointerFrame ==
    /\ error' = "none"
    /\ UNCHANGED <<brushColor, brushSize, eraser>>
    /\ UNCHANGED <<window, smoothing, canvasW, canvasH, artW, artH, ghost,
                   style, result, showDialog, pending, typography>>

\* onMouseDown and onTouchStart
onMouseDown ==
    \E pos \in Positions :
        /\ OnCanvas(pos)
        /\ drawing' = TRUE
        /\ last' = pos
        /\ lastOp' = "onMouseDown"
        /\ UNCHANGED <<canvasPx, canvasAlpha, artPx, artAlpha, latest>>
        /\ PointerFrame

onTouchStart ==
    \E pos \in Positions :
        /\ OnCanvas(pos)
        /\ drawing' = TRUE
        /\ last' = pos
        /\ lastOp' = "onTouchStart"
        /\ UNCHANGED <<canvasPx, canvasAlpha, artPx, artAlpha, latest>>
        /\ PointerFrame

\* A variant of onMouseMove without the test of drawing.current.
onMouseMove_always ==
    \E pos \in Positions :
        /\ OnCanvas(pos)
        /\ lastOp' = "onMouseMove"
        /\ IF last = Null
           THEN /\ error' = "TypeError"
                /\ UNCHANGED <<canvasPx, canvasAlpha, artPx, artAlpha,
                               latest, last>>
           ELSE /\ error' = "none"
                /\ drawLine(last, pos)
                /\ last' = pos
        /\ UNCHANGED <<drawing, brushColor, brushSize, eraser>>
        /\ UNCHANGED <<window, smoothing, canvasW, canvasH, artW, artH, ghost,
                       style, result, showDialog, pending, typography>>

\* onMouseMove and onTouchMove: last.current.x of a null last throws.
onMouseMove ==
    \E pos \in Positions :
        /\ OnCanvas(pos)
        /\ lastOp' = "onMouseMove"
        /\ IF ~drawing
           THEN /\ error' = "none"
                /\ UNCHANGED <<canvasPx, canvasAlpha, artPx, artAlpha,
                               latest, last>>
           ELSE IF last = Null
           THEN /\ error' = "TypeError"
                /\ UNCHANGED <<canvasPx, canvasAlpha, artPx, artAlpha,
                               latest, last>>
           ELSE /\ error' = "none"
                /\ drawLine(last, pos)
                /\ last' = pos
        /\ UNCHANGED <<drawing, brushColor, brushSize, eraser>>
        /\ UNCHANGED <<window, smoothing, canvasW, canvasH, artW, artH, ghost,
                       style, result, showDialog, pending, typography>>

onTouchMove ==
    \E pos \in Positions :
        /\ OnCanvas(pos)
        /\ lastOp' = "onTouchMove"
        /\ IF ~drawing
           THEN /\ error' = "none"
                /\ UNCHANGED <<canvasPx, canvasAlpha, artPx, artAlpha,
                               latest, last>>
           ELSE IF last = Null
           THEN /\ error' = "TypeError"
                /\ UNCHANGED <<canvasPx, canvasAlpha, artPx, artAlpha,
                               latest, last>>
           ELSE /\ error' = "none"
                /\ drawLine(last, pos)
                /\ last' = pos
        /\ UNCHANGED <<drawing, brushColor, brushSize, eraser>>
        /\ UNCHANGED <<window, smoothing, canvasW, canvasH, artW, artH, ghost,
                       style, result, showDialog, pending, typography>>

\* onMouseUp, onMouseLeave and onTouchEnd
onMouseUp ==
    /\ drawing' = FALSE
    /\ lastOp' = "onMouseUp"
    /\ UNCHANGED <<canvasPx, canvasAlpha, artPx, artAlpha, latest, last>>
    /\ PointerFrame

onMouseLeave ==
    /\ drawing' = FALSE
    /\ lastOp' = "onMouseLeave"
    /\ UNCHANGED <<canvasPx, canvasAlpha, artPx, artAlpha, latest, last>>
    /\ PointerFrame

onTouchEnd ==
    /\ drawing' = FALSE
    /\ lastOp' = "onTouchEnd"
    /\ UNCHANGED <<canvasPx, canvasAlpha, artPx, artAlpha, latest, last>>
    /\ PointerFrame

\* What the brush controls leave alone.
BrushFrame ==
    /\ error' = "none"
    /\ UNCHANGED <<drawing, last, latest>>
    /\ UNCHANGED <<window, smoothing, canvas, art, ghost, style, result,
                   showDialog, pending, typography>>

\* The Brush Size slider, the colour input and the eraser button.
setBrushSize ==
    \E v \in BrushSizeChoices :
        /\ SliderValue(v, BrushSizeMin, BrushSizeMax) # brushSize
        /\ brushSize' = SliderValue(v, BrushSizeMin, BrushSizeMax)
        /\ lastOp' = "setBrushSize"
        /\ UNCHANGED <<brushColor, eraser>>
        /\ BrushFrame

setBrushColor ==
    \E v \in BrushColorChoices \ {brushColor} :
        /\ brushColor' = v
        /\ lastOp' = "setBrushColor"
        /\ UNCHANGED <<brushSize, eraser>>
        /\ BrushFrame

setEraser ==
    /\ eraser' = ~eraser
    /\ lastOp' = "setEraser"
    /\ UNCHANGED <<brushColor, brushSize>>
    /\ BrushFrame

\* The pointer handlers and the brush controls.
NextPointer ==
    \/ onMouseDown
    \/ onMouseMove
    \/ onMouseUp
    \/ onMouseLeave
    \/ onTouchStart
    \/ onTouchMove
    \/ onTouchEnd
    \/ setBrushSize
    \/ setBrushColor
    \/ setEraser

\* Drawing with the mouse, with the handlers that repaint the raster as a
\* whole.
NextDrawing ==
    \/ onMouseDown
    \/ onMouseMove
    \/ onMouseUp
    \/ setBrushSize
    \/ setEraser
    \/ clearCanvas
    \/ resize
    \/ handleUpload
    \/ imgOnload
    \/ imgOnerror

\* Drawing, importing and converting: the handlers that write the raster
\* within one window size, "Generate ASCII", the Invert switch and the
\* closing of the result dialog.
NextStudio ==
    \/ onMouseDown
    \/ onMouseMove
    \/ clearCanvas
    \/ handleUpload
    \/ imgOnload
    \/ imgOnerror
    \/ setInvert
    \/ setShowDialog
    \/ toASCII

\* "Clear" after drawing and importing, and the conversions around it under
\* both settings of Invert and of Density Bias.
NextClearing ==
    \/ onMouseDown
    \/ onMouseMove
    \/ handleUpload
    \/ imgOnload
    \/ clearCanvas
    \/ setInvert
    \/ setDensityBias
    \/ toASCII

SpecClearing == Init /\ [][NextClearing]_vars

SpecStudio == Init /\ [][NextStudio]_vars

SpecPointer == Init /\ [][NextPointer]_vars
SpecDrawing == Init /\ [][NextDrawing]_vars

\* A variant of copyColorAscii that leaves the font size to the default of
\* buildColorAsciiDocument's parameter.
copyColorAscii_defaultSize ==
    /\ colorAsciiHtml # <<>>
    /\ doc' = buildColorAsciiDocument(colorAsciiHtml,
                                       1000 * ASCII_MAX_FONT_SIZE)
    /\ lastOp' = "copyColorAscii"
    /\ error' = "none"
    /\ UNCHANGED <<pen, smoothing, latest>>
    /\ UNCHANGED <<window, canvas, art, ghost, style, result, showDialog,
                   pending, asciiFontSize, asciiLineHeight>>

\* "Copy" and "Download" of the coloured result: both build the document
\* from the markup and the current font size.
copyColorAscii ==
    /\ colorAsciiHtml # <<>>
    /\ doc' = buildColorAsciiDocument(colorAsciiHtml, 10 * asciiFontSize)
    /\ lastOp' = "copyColorAscii"
    /\ error' = "none"
    /\ UNCHANGED <<pen, smoothing, latest>>
    /\ UNCHANGED <<window, canvas, art, ghost, style, result, showDialog,
                   pending, asciiFontSize, asciiLineHeight>>

downloadColorAscii ==
    /\ colorAsciiHtml # <<>>
    /\ doc' = buildColorAsciiDocument(colorAsciiHtml, 10 * asciiFontSize)
    /\ lastOp' = "downloadColorAscii"
    /\ error' = "none"
    /\ UNCHANGED <<pen, smoothing, latest>>
    /\ UNCHANGED <<window, canvas, art, ghost, style, result, showDialog,
                   pending, asciiFontSize, asciiLineHeight>>

\* The conversion and its settings: the window, "Clear", the style controls,
\* the result dialog and "Generate ASCII".
NextConversion ==
    \/ resize
    \/ clearCanvas
    \/ setColumns
    \/ setLineHeightRatio
    \/ setCharset
    \/ setInvert
    \/ setDensityBias
    \/ setShowDialog
    \/ toASCII

\* The import of images, with the handlers that repaint or read the raster.
NextImport ==
    \/ handleUpload
    \/ imgOnload
    \/ imgOnerror
    \/ resize
    \/ clearCanvas
    \/ setLineHeightRatio
    \/ setInvert
    \/ toASCII

\* The export of the coloured result, with the handlers that produce what
\* it reads.
NextExport ==
    \/ copyColorAscii
    \/ downloadColorAscii
    \/ setColumns
    \/ toASCII

\* The application restricted to each of the two groups of handlers.
SpecConversion == Init /\ [][NextConversion]_vars
SpecImport == Init /\ [][NextImport]_vars

----------------------------------------------------------------------------
(* The conversion as a function of its inputs: the initial states draw the *)
(* raster and the style settings from bounded sets, the only step is the   *)
(* conversion.                                                             *)

VSplit(W, H) ==
    [y \in 1..H |-> [x \in 1..W |-> IF 2 * (x - 1) < W THEN Black ELSE White]]
HSplit(W, H) ==
    [y \in 1..H |-> [x \in 1..W |-> IF 2 * (y - 1) < H THEN Black ELSE White]]
Checker(W, H) ==
    [y \in 1..H |-> [x \in 1..W |-> IF (x + y) % 2 = 0 THEN Black ELSE White]]

RowAspects == {5, 10, 14, 20, 30}
OneChar == <<"#">>
TwoChars == <<" ", "#">>
Palettes == PRESETS \cup {OneChar, TwoChars}
Samples == {Black, White, Green, Magenta, Emerald, Grey}

InitMounted ==
    /\ winW = artW
    /\ winH = artH
    /\ canvasW = artW
    /\ canvasH = artH
    /\ canvasPx = drawDots(artW, artH)
    /\ canvasAlpha = Opaque(artW, artH)
    /\ artAlpha = Opaque(artW, artH)
    /\ drawing = FALSE
    /\ last = Null
    /\ brushColor = Black
    /\ brushSize = 8
    /\ eraser = FALSE
    /\ latest = NoWork
    /\ smoothing \in Filters
    /\ ghostW = artW
    /\ ghostH = artH
    /\ ghostPx = Blank(artW, artH)
    /\ ascii = <<>>
    /\ colorAsciiHtml = <<>>
    /\ showDialog = FALSE
    /\ pending = <<>>
    /\ asciiFontSize = asciiFontSizeOf(columns)
    /\ asciiLineHeight = asciiLineHeightOf(asciiFontSize)
    /\ doc = NoDocument
    /\ lastOp = "mount"
    /\ error = "none"

\* Small rasters of every size, every column count and row aspect.
SmallRasters ==
    /\ artW \in 1..MaxW
    /\ artH \in 1..MaxH
    /\ artPx \in {Solid(artW, artH, White), VSplit(artW, artH),
                  HSplit(artW, artH), Checker(artW, artH)}
    /\ columns \in 1..MaxColumns
    /\ lineHeightRatio \in RowAspects
    /\ charset = Classic
    /\ invert = FALSE
    /\ densityBias = 0

\* The worked examples of the specification, and a raster on which the
\* double product cellW * lineHeightRatio matters (50 * 2.3).
ExampleRasters ==
    /\ charset = Classic
    /\ invert = FALSE
    /\ densityBias = 0
    /\ \/ /\ artW = 100 /\ artH = 50
          /\ artPx = Solid(100, 50, Green)
          /\ columns = 10 /\ lineHeightRatio = 20
       \/ /\ artW = 100 /\ artH = 2
          /\ artPx \in {Solid(100, 2, White), VSplit(100, 2)}
          /\ columns \in {100, 101, 400, 1000}
          /\ lineHeightRatio = 20
       \/ /\ artW = 100 /\ artH = 229
          /\ artPx = HSplit(100, 229)
          /\ columns \in {1, 2}
          /\ lineHeightRatio \in {20, 23}

\* Two sample colours side by side, sampled one cell each; density biases in
\* steps of 5, both orientations, every palette.
BiasChoices == {b \in DensityBiasMin..DensityBiasMax : b % 5 = 0}
SamplePairs ==
    /\ artW = 2 /\ artH = 1
    /\ artPx \in {<<(<<a, b>>)>> : a \in Samples, b \in Samples}
    /\ columns = 2
    /\ lineHeightRatio = 10
    /\ charset \in Palettes
    /\ invert \in BOOLEAN
    /\ densityBias \in BiasChoices

NextPipeline == toASCII

InitGeometry == (SmallRasters \/ ExampleRasters) /\ InitMounted

SpecGeometry == InitGeometry /\ [][NextPipeline]_vars

InitQuantizer == SamplePairs /\ InitMounted

SpecQuantizer == InitQuantizer /\ [][NextPipeline]_vars

\* Palettes of one and of two characters, typed from the characters that
\* escapeForHtml replaces and two that it does not; two samples side by
\* side, one cell each.
MarkupChars == {"&", "<", ">", "\"", "'", " ", "#", ";"}
MarkupPalettes ==
    {<<a>> : a \in MarkupChars} \cup {<<a, b>> : a, b \in MarkupChars}
MarkupInputs ==
    /\ artW = 2 /\ artH = 1
    /\ artPx \in {<<(<<a, b>>)>> : a, b \in {Black, White, Grey}}
    /\ columns = 2
    /\ lineHeightRatio = 10
    /\ charset \in MarkupPalettes
    /\ invert \in BOOLEAN
    /\ densityBias = 0

InitMarkup == MarkupInputs /\ InitMounted

SpecMarkup == InitMarkup /\ [][NextPipeline]_vars

\* The typography as a function of its inputs: the component is constructed
\* with any columns value from -2 to MaxTypoColumns, its first render
\* computes the two memos, and buildColorAsciiDocument is called with
\* requested font sizes from -0.992 to 14.88 in steps of 0.248, none of them
\* halfway between two hundredths.
TypoColumns == (-2)..MaxTypoColumns
RequestedFontSizes == {r \in (-1000)..15000 : r % 248 = 0}
InitTypography ==
    /\ artW = 1 /\ artH = 1
    /\ artPx = Solid(1, 1, White)
    /\ winW = artW /\ winH = artH
    /\ canvasW = artW /\ canvasH = artH
    /\ canvasPx = drawDots(artW, artH)
    /\ canvasAlpha = Opaque(artW, artH)
    /\ artAlpha = Opaque(artW, artH)
    /\ drawing = FALSE
    /\ last = Null
    /\ brushColor = Black
    /\ brushSize = 8
    /\ eraser = FALSE
    /\ latest = NoWork
    /\ smoothing \in Filters
    /\ ghostW = artW /\ ghostH = artH
    /\ ghostPx = Blank(artW, artH)
    /\ columns \in TypoColumns
    /\ lineHeightRatio = 10
    /\ charset = Classic
    /\ invert = FALSE
    /\ densityBias = 0
    /\ ascii = <<>>
    /\ colorAsciiHtml = <<>>
    /\ showDialog = FALSE
    /\ pending = <<>>
    /\ asciiFontSize = 0
    /\ asciiLineHeight = 0
    /\ doc = NoDocument
    /\ lastOp = "construct"
    /\ error = "none"

\* A render of the component: the useMemo of asciiFontSize, then the one of
\* asciiLineHeight.
render ==
    /\ asciiFontSize' = asciiFontSizeOf(columns)
    /\ asciiLineHeight' = asciiLineHeightOf(asciiFontSize')
    /\ lastOp' = "render"
    /\ UNCHANGED <<pen, smoothing, latest>>
    /\ UNCHANGED <<window, canvas, art, ghost, style, result, showDialog,
                   pending, doc, error>>

\* A call of buildColorAsciiDocument with any requested font size; without
\* the argument the parameter defaults to ASCII_MAX_FONT_SIZE.
buildDocument ==
    \E requestedFontSize \in
            RequestedFontSizes \cup {1000 * ASCII_MAX_FONT_SIZE} :
        /\ doc' = buildColorAsciiDocument(colorAsciiHtml, requestedFontSize)
        /\ lastOp' = "buildColorAsciiDocument"
        /\ error' = "none"
        /\ UNCHANGED <<pen, smoothing, latest>>
        /\ UNCHANGED <<window, canvas, art, ghost, style, result, showDialog,
                       pending, asciiFontSize, asciiLineHeight>>

NextTypography ==
    \/ render
    \/ buildDocument

SpecTypography == InitTypography /\ [][NextTypography]_vars

\* Every handler of the component.
Next ==
    \/ NextConversion
    \/ NextImport
    \/ NextExport
    \/ NextTypography
    \/ NextPointer
    \/ NextDrawing
    \/ NextStudio
    \/ NextClearing

Spec == Init /\ [][Next]_vars

\* The rendered width as a function of its inputs: white rasters four rows
\* high of several widths, converted with square cells at column counts
\* below, inside and above the range in which the font size is not clamped.
\* (A row aspect of 1 makes cellW * lineHeightRatio exact for every cellW.)
WidthRasters == {130, 260, 400, 500}
WidthColumns ==
    {1, 40, 100, 125, 130, 133, 150, 200, 250, 260, 300, 400, 450, 500, 600}
WidthInputs ==
    /\ artW \in WidthRasters
    /\ artH = 4
    /\ artPx = Solid(artW, artH, White)
    /\ columns \in WidthColumns
    /\ lineHeightRatio = 10
    /\ charset = Classic
    /\ invert = FALSE
    /\ densityBias = 0

InitWidth == WidthInputs /\ InitMounted

SpecWidth == InitWidth /\ [][NextPipeline]_vars

\* The export as a function of columns: the component is mounted with any
\* columns value from 1 to MaxTypoColumns over a raster of one white pixel.
ExportInputs ==
    /\ artW = 1 /\ artH = 1
    /\ artPx = Solid(1, 1, White)
    /\ columns \in 1..MaxTypoColumns
    /\ lineHeightRatio = 10
    /\ charset = Classic
    /\ invert = FALSE
    /\ densityBias = 0

InitExport == ExportInputs /\ InitMounted

SpecExport == InitExport /\ [][NextExport]_vars

\* Every sampled colour and charset length lies in the domain for which the
\* double arithmetic was tabulated.
IeeeDomainOk ==
    /\ \A y \in 1..ghostH : \A x \in 1..ghostW : ghostPx[y][x] \in IeeeColours
    /\ Len(charset) \in IeeeLengths
    /\ cellW(artW, columns) <= 129
    /\ lineHeightRatio \in 1..41

----------------------------------------------------------------------------
(* Properties of the grid geometry.                                        *)

\* The conversion handler has just run, to its end or to an exception.
Converted == lastOp = "toASCII"

\* The grid size of the formulas of section 4.1, for the current inputs.
SpecCellW == IF artW \div columns >= 1 THEN artW \div columns ELSE 1
SpecCellH ==
    IF FloorMul(SpecCellW, lineHeightRatio) >= 1
    THEN FloorMul(SpecCellW, lineHeightRatio)
    ELSE 1
SpecOutW == artW \div SpecCellW
SpecOutH == artH \div SpecCellH

\* C1: after a conversion of a raster with W >= 1 and H >= 1, with
\* columns >= 1 and a positive row aspect, the computed grid has outW >= 1
\* and outH >= 1.
C1_GridAtLeastOne ==
    (Converted /\ artW >= 1 /\ artH >= 1 /\ columns >= 1
        /\ lineHeightRatio > 0)
    => (ghostW >= 1 /\ ghostH >= 1)

\* C2: the conversion computes cellW = max(1, floor(W / columns)),
\* cellH = max(1, floor(cellW * rowAspect)), outW = floor(W / cellW) and
\* outH = floor(H / cellH), and the sampled grid has exactly outW columns and
\* outH rows.
C2_GridFormulas ==
    Converted =>
        /\ ghostW = SpecOutW
        /\ ghostH = SpecOutH
        /\ Len(ghostPx) = SpecOutH
        /\ \A y \in 1..SpecOutH : Len(ghostPx[y]) = SpecOutW

\* C2 happens: a conversion with cellW = 50 and row aspect 2.3, where the
\* double product 50 * 2.3 floors to 114 and a 229-pixel-high raster gives
\* two rows.
C2_Witness ==
    /\ Converted /\ error = "none"
    /\ artW = 100 /\ artH = 229 /\ columns = 2 /\ lineHeightRatio = 23
    /\ ghostW = 2 /\ ghostH = 2

\* C3: when columns exceeds the raster width W >= 1, cellW is 1 and the
\* output width is W, not columns.
C3_ColumnsBeyondWidth ==
    (Converted /\ artW >= 1 /\ columns > artW)
    => (cellW(artW, columns) = 1 /\ ghostW = artW /\ ghostW # columns)

\* C3 happens: 1000 columns requested on a raster 100 pixels wide.
C3_Witness ==
    /\ Converted /\ error = "none"
    /\ artW = 100 /\ columns = 1000 /\ ghostW = 100
    /\ Len(ascii) = ghostH * 101

\* C4, as claimed: whenever 1 <= columns <= W, the output width equals the
\* requested columns.
C4_OutWEqualsColumns ==
    (Converted /\ 1 <= columns /\ columns <= artW) => ghostW = columns

\* C4, amended: whenever 1 <= columns <= W, the output width is at least
\* columns, and it equals columns exactly when W mod columns is less than
\* floor(W / columns).
C4_OutWAtLeastColumns ==
    (Converted /\ 1 <= columns /\ columns <= artW)
    => /\ ghostW >= columns
       /\ (ghostW = columns) <=> (artW % columns < artW \div columns)

\* C4 happens: 5 pixels, 3 columns requested, 5 columns produced.
C4_Witness ==
    /\ Converted /\ error = "none"
    /\ artW = 5 /\ columns = 3 /\ ghostW = 5

\* The text is h rows of w characters of cs, each row followed by a newline,
\* the character at column x of row y being the one selected for the sample
\* at (x, y).
IsTextOf(text, w, h, cs) ==
    /\ Len(text) = h * (w + 1)
    /\ \A y \in 1..h :
        /\ text[y * (w + 1)] = "\n"
        /\ \A x \in 1..w :
            /\ \E i \in 1..Len(cs) : text[(y - 1) * (w + 1) + x] = cs[i]
            /\ <<text[(y - 1) * (w + 1) + x]>>
                 = cellChar(ghostPx, x, y, cs, densityBias, invert)

\* C5: after every conversion (of a raster with W >= 1 and H >= 1), the
\* plain text is exactly outH rows of exactly outW palette characters in grid
\* order, each row followed by a newline.
C5_PlainTextGrid ==
    (Converted /\ artW >= 1 /\ artH >= 1)
    => IsTextOf(ascii, SpecOutW, SpecOutH, charset)

----------------------------------------------------------------------------
(* Properties of the quantizer.                                            *)

\* The character written for cell (x, y) of the last conversion.
AsciiAt(x, y) == ascii[(y - 1) * (ghostW + 1) + x]

\* The zero-based position of character c in a charset of distinct
\* characters.
IndexIn(cs, c) == (CHOOSE i \in 1..Len(cs) : cs[i] = c) - 1

Cells == {<<x, y>> \in (1..ghostW) \X (1..ghostH) : TRUE}

\* C6: for every sample, density bias in -100..100, orientation and palette
\* of length >= 1, the index round(lum * (len - 1)) lies in 0..len-1 and the
\* character written is a character of the palette.
C6_IndexInRange ==
    (Converted /\ error = "none" /\ Len(charset) >= 1)
    => \A p \in Cells :
        /\ charIndex(ghostPx[p[2]][p[1]], densityBias, invert, Len(charset))
             \in 0..(Len(charset) - 1)
        /\ \E i \in 1..Len(charset) : AsciiAt(p[1], p[2]) = charset[i]

\* C6 happens: a conversion at each end of the bias range, with a white and
\* a black sample.
C6_Witness ==
    /\ Converted /\ error = "none"
    /\ densityBias = DensityBiasMax /\ ~invert /\ charset = UltraDense
    /\ ghostPx = <<(<<White, Black>>)>>
    /\ ascii = <<" ", " ", "\n">>

\* The conversion of the worked example: a 100 x 50 raster of (10, 200, 10),
\* 10 columns, row aspect 2, the Classic palette, not inverted, no bias.
ExampleConverted ==
    /\ Converted
    /\ artW = 100 /\ artH = 50 /\ artPx = Solid(100, 50, <<10, 200, 10>>)
    /\ columns = 10 /\ lineHeightRatio = 20
    /\ charset = Classic /\ ~invert /\ densityBias = 0

ExampleGrid ==
    /\ SpecCellW = 10 /\ SpecCellH = 20
    /\ ghostW = 10 /\ ghostH = 2
    /\ \A p \in Cells :
        charIndex(ghostPx[p[2]][p[1]], densityBias, invert, Len(charset)) = 5

TenOf(c) == <<c, c, c, c, c, c, c, c, c, c, "\n">>

\* C7, as claimed: the example gives cellW = 10, cellH = 20, outW = 10,
\* outH = 2 and index 5 in every cell, the character is "=" and the text is
\* two rows of ten "=".
C7_ExampleEquals ==
    ExampleConverted
    => /\ ExampleGrid
       /\ charset[5 + 1] = "="
       /\ ascii = TenOf("=") \o TenOf("=")

\* C7, amended: the same geometry and index 5, but the character at index 5
\* of " .:-=+*#%@" is "+" and the text is two rows of ten "+".
C7_ExamplePlus ==
    ExampleConverted
    => /\ ExampleGrid
       /\ charset[5 + 1] = "+"
       /\ ascii = TenOf("+") \o TenOf("+")

\* C7 happens: the example has been converted.
C7_Witness == ExampleConverted /\ error = "none" /\ Len(ascii) = 22

AllSamplesBlack == \A p \in Cells : ghostPx[p[2]][p[1]] = Black

\* C8: an all-black sample grid with no density bias gives the last palette
\* character in every cell when not inverted, the first when inverted.
C8_BlackSelectsEnd ==
    (Converted /\ error = "none" /\ Len(charset) >= 1 /\ densityBias = 0
        /\ AllSamplesBlack)
    => \A p \in Cells :
        AsciiAt(p[1], p[2])
          = IF invert THEN charset[1] ELSE charset[Len(charset)]

\* C8 happens: black samples, not inverted, a palette whose ends differ.
C8_Witness ==
    /\ Converted /\ error = "none" /\ densityBias = 0 /\ AllSamplesBlack
    /\ ~invert /\ charset = Classic
    /\ ascii = <<"@", "@", "\n">>

\* C9: with a palette of one character the index is 0 in every cell and the
\* text holds that character and nothing else, whatever the sample, the
\* bias and the orientation.
C9_OneCharacterPalette ==
    (Converted /\ error = "none" /\ Len(charset) = 1)
    => /\ \A p \in Cells :
            /\ charIndex(ghostPx[p[2]][p[1]], densityBias, invert, 1) = 0
            /\ AsciiAt(p[1], p[2]) = charset[1]
       /\ Len(ascii) = ghostH * (ghostW + 1)

\* C9 happens: a one-character palette, inverted, at the lowest bias, on a
\* white and a grey sample.
C9_Witness ==
    /\ Converted /\ error = "none" /\ charset = OneChar
    /\ invert /\ densityBias = DensityBiasMin
    /\ ghostPx = <<(<<White, <<128, 128, 128>> >>)>>
    /\ ascii = <<"#", "#", "\n">>

----------------------------------------------------------------------------
(* Properties of the density bias.                                         *)

\* The index the quantizer gives the sample of column x at density bias b,
\* everything else as in the last conversion.
IndexAtBias(x, b) == charIndex(ghostPx[1][x], b, invert, Len(charset))

\* C11, as claimed: for a fixed sample, palette and orientation, a larger
\* density bias never selects a lower palette index than a smaller one.
C11_BiasNeverLowersIndex ==
    (Converted /\ error = "none" /\ ghostH = 1)
    => \A x \in 1..ghostW : \A b \in BiasChoices :
        b >= densityBias
        => IndexAtBias(x, b) >= IndexIn(charset, AsciiAt(x, 1))

\* C11: the bias is added and clamped before the flip, so a larger density
\* bias never selects a lower index when inverted and never a higher index
\* when not inverted.
C11_BiasFollowsOrientation ==
    (Converted /\ error = "none" /\ ghostH = 1)
    => \A x \in 1..ghostW : \A b \in BiasChoices :
        b >= densityBias
        => IF invert
           THEN IndexAtBias(x, b) >= IndexIn(charset, AsciiAt(x, 1))
           ELSE IndexAtBias(x, b) <= IndexIn(charset, AsciiAt(x, 1))

\* C11 happens: a grey sample converted without bias and not inverted got
\* "=" (index 4); at the highest bias it gets index 0.
C11_Witness ==
    /\ Converted /\ error = "none" /\ ~invert /\ charset = Classic
    /\ densityBias = 0
    /\ ghostPx = <<(<<Grey, Grey>>)>>
    /\ AsciiAt(1, 1) = "=" 
    /\ IndexAtBias(1, DensityBiasMax) = 0

----------------------------------------------------------------------------
(* Properties of the markup text.                                          *)

\* The number of newline characters of a text.
Newlines(text) == Cardinality({i \in 1..Len(text) : text[i] = "\n"})

\* <span style="color: rgb(r, g, b)">e</span> for a colour c and a text e.
SpanOf(c, e) ==
    <<"<", "s", "p", "a", "n", " ", "s", "t", "y", "l", "e", "=", "\"",
      "c", "o", "l", "o", "r", ":", " ", "r", "g", "b", "(">>
        \o NumberToString(c[1]) \o <<",", " ">>
        \o NumberToString(c[2]) \o <<",", " ">>
        \o NumberToString(c[3])
        \o <<")", "\"", ">">> \o e \o <<"<", "/", "s", "p", "a", "n", ">">>

\* Row y of the markup of the last grid: one span for each x, in order, with
\* the sampled colour of cell (x, y) and the escaped character at column x
\* of row y of the plain text, then a newline.
MarkupRow(y) ==
    Flatten([x \in 1..ghostW |->
        SpanOf(ghostPx[y][x], escapeForHtml(<<AsciiAt(x, y)>>))])
      \o <<"\n">>

\* C12: after every conversion (of a raster with W >= 1 and H >= 1) the
\* markup has as many rows as the plain text, each ended by a newline, and
\* row y is the concatenation over x of the spans of the cells (x, y) around
\* the escaped plain-text characters.
C12_MarkupGrid ==
    (Converted /\ artW >= 1 /\ artH >= 1)
    => /\ Newlines(colorAsciiHtml) = Newlines(ascii)
       /\ Len(ascii) = ghostH * (ghostW + 1)
       /\ colorAsciiHtml = Flatten([y \in 1..ghostH |-> MarkupRow(y)])

\* The same for the conversions that ran to their end.
C12_MarkupGridIfCompleted ==
    (Converted /\ error = "none")
    => /\ Newlines(colorAsciiHtml) = Newlines(ascii)
       /\ Len(ascii) = ghostH * (ghostW + 1)
       /\ colorAsciiHtml = Flatten([y \in 1..ghostH |-> MarkupRow(y)])

----------------------------------------------------------------------------
(* Properties of the escaping.                                             *)

\* Text t holds pattern pat at position j.
HasAt(t, pat, j) ==
    /\ j >= 1 /\ j + Len(pat) - 1 <= Len(t)
    /\ SubSeq(t, j, j + Len(pat) - 1) = pat

\* The first position from i on at which t holds pat, 0 if there is none.
FirstAt(t, pat, i) ==
    LET at == {j \in i..Len(t) : HasAt(t, pat, j)}
    IN  IF at = {} THEN 0 ELSE CHOOSE j \in at : \A k \in at : j <= k

\* The contents of the spans of a markup text from position i on, in order:
\* what stands between the  ">  that ends an opening tag and the next
\* </span>  (a content has at least one character).
RECURSIVE SpanContents(_, _)
SpanContents(t, i) ==
    LET open == FirstAt(t, <<")", "\"", ">">>, i)
        from == open + 3
        close == FirstAt(t, <<"<", "/", "s", "p", "a", "n", ">">>, from + 1)
    IN  IF open = 0 \/ close = 0 THEN <<>>
        ELSE <<SubSeq(t, from, close - 1)>> \o SpanContents(t, close + 7)

\* The characters of the plain text, without the newlines.
PlainChars == SelectSeq(ascii, LAMBDA c : c # "\n")

\* The escaped form section 4.3 asks for.
EscapedForm(c) ==
    CASE c = "&" -> <<"&", "a", "m", "p", ";">>
      [] c = "<" -> <<"&", "l", "t", ";">>
      [] c = ">" -> <<"&", "g", "t", ";">>
      [] c = "\"" -> <<"&", "q", "u", "o", "t", ";">>
      [] c = "'" -> <<"&", "#", "3", "9", ";">>
      [] c = " " -> <<"&", "n", "b", "s", "p", ";">>
      [] OTHER -> <<c>>

\* C13: in the markup, the content of the k-th span is the escaped form of
\* the k-th palette character written to the plain text: &amp; &lt; &gt;
\* &quot; &#39; for & < > " ', &nbsp; for a space, and the character itself
\* otherwise.
C13_MarkupEscaped ==
    LET contents == SpanContents(colorAsciiHtml, 1)
    IN  /\ Len(contents) = Len(PlainChars)
        /\ \A k \in 1..Len(contents) :
              contents[k] = EscapedForm(PlainChars[k])

\* C13 happens: a conversion wrote a "<" and a space, and the markup holds
\* &lt; and &nbsp; for them.
C13_Witness ==
    /\ Converted /\ error = "none"
    /\ ascii = <<"<", " ", "\n">>
    /\ SpanContents(colorAsciiHtml, 1)
         = << <<"&", "l", "t", ";">>, <<"&", "n", "b", "s", "p", ";">> >>

\* C14: escaping is idempotent: for every character c written by a
\* conversion, escapeForHtml(escapeForHtml(c)) = escapeForHtml(c); the
\* escaped character is the content of the character's span.
C14_EscapeIdempotent ==
    (Converted /\ error = "none")
    => LET contents == SpanContents(colorAsciiHtml, 1)
       IN  /\ \A k \in 1..Len(PlainChars) :
                escapeForHtml(escapeForHtml(<<PlainChars[k]>>))
                  = escapeForHtml(<<PlainChars[k]>>)
           /\ \A k \in 1..Len(contents) :
                escapeForHtml(contents[k]) = contents[k]

\* C14 happens: an ampersand was escaped to &amp;, which begins with an
\* ampersand.
C14_Witness ==
    /\ Converted /\ error = "none"
    /\ ascii = <<"&", "&", "\n">>
    /\ SpanContents(colorAsciiHtml, 1)
         = << <<"&", "a", "m", "p", ";">>, <<"&", "a", "m", "p", ";">> >>

----------------------------------------------------------------------------
(* Properties of the error handling.                                       *)

\* C15: a conversion requested while the raster has width 0 or height 0
\* leaves an empty artifact: the plain text and the markup text are both
\* empty.
C15_ZeroRasterEmptyArtifact ==
    (Converted /\ (artW = 0 \/ artH = 0))
    => (ascii = <<>> /\ colorAsciiHtml = <<>>)

\* C16: a non-positive columns or row aspect never reaches the grid-size
\* computation (the value is held to the minimum valid value first), and the
\* conversion succeeds with outW >= 1 and outH >= 1.
C16_ClampedAndSucceeds ==
    (Converted /\ artW >= 1 /\ artH >= 1)
    => /\ columns >= 1 /\ lineHeightRatio > 0
       /\ error = "none"
       /\ ghostW >= 1 /\ ghostH >= 1

\* The first half of C16 alone: the style values a conversion reads are in
\* the sliders' ranges.
C16_StyleInRange ==
    /\ columns \in ColumnsMin..ColumnsMax
    /\ lineHeightRatio \in LineHeightMin..LineHeightMax

\* A step of an import that fails: handleUpload starts the load of a file
\* that does not decode, or img.onerror is called for it.
FailedImportStep ==
    \/ /\ lastOp' = "handleUpload"
       /\ Len(pending') = Len(pending) + 1
       /\ ~pending'[Len(pending')].ok
    \/ /\ lastOp' = "imgOnerror"
       /\ Len(pending') = Len(pending) - 1

\* C17: an import that fails leaves the art canvas, the visible canvas, the
\* style settings and the last conversion result exactly as they were.
C17_FailedImportChangesNothing ==
    [][FailedImportStep => UNCHANGED <<canvas, art, style, result>>]_vars

\* C17 happens: an import has just failed while the raster held an imported
\* image and a conversion result was present.
C17_Witness ==
    /\ lastOp = "imgOnerror"
    /\ artW >= 1 /\ artH >= 1
    /\ artPx # Solid(artW, artH, White)
    /\ ascii # <<>>

----------------------------------------------------------------------------
(* Properties of the sampling.                                             *)

\* The sum of channel k over the source pixels of columns x*cellW ..
\* (x+1)*cellW - 1 and rows y*cellH .. (y+1)*cellH - 1 (x, y zero-based).
CellSum(x, y, k) ==
    SumTo(LAMBDA j :
            SumTo(LAMBDA i : artPx[j + 1][i + 1][k],
                  x * SpecCellW, (x + 1) * SpecCellW - 1),
          y * SpecCellH, (y + 1) * SpecCellH - 1)

\* C18: the colour sampled for every cell (x, y) is the average (rounded to
\* a whole channel value, up or down) of exactly the source pixels of
\* columns x*cellW .. (x+1)*cellW - 1 and rows y*cellH .. (y+1)*cellH - 1.
C18_BoxOfCell ==
    (Converted /\ error = "none")
    => \A p \in Cells : \A k \in 1..3 :
        LET n == SpecCellW * SpecCellH
            d == n * ghostPx[p[2]][p[1]][k] - CellSum(p[1] - 1, p[2] - 1, k)
        IN  -n < d /\ d < n

----------------------------------------------------------------------------
(* Typography.                                                             *)

\* The columns value the font size is derived from, at least 1.
SafeColumns == Max(1, columns)

\* C19: for every columns value, the display font size is
\* clamp(900 / (max(1, columns) * 0.6), 3, 12) rounded to 2 decimals, that
\* is 12 when 900 / (0.6 * max(1, columns)) >= 12, 3 when it is <= 3, and
\* otherwise the hundredth nearest to it; it lies in [3, 12]; columns = 100
\* gives 15 before the clamp and 12 after.
C19_FontSizeClamped ==
    asciiFontSize # 0 =>
        /\ 300 <= asciiFontSize /\ asciiFontSize <= 1200
        /\ 9000 >= 12 * 6 * SafeColumns => asciiFontSize = 1200
        /\ 9000 <= 3 * 6 * SafeColumns => asciiFontSize = 300
        /\ (9000 < 12 * 6 * SafeColumns /\ 9000 > 3 * 6 * SafeColumns) =>
               LET twiceError == 2 * (6 * SafeColumns * asciiFontSize
                                          - 900000)
               IN  /\ -(6 * SafeColumns) <= twiceError
                   /\ twiceError <= 6 * SafeColumns
        /\ columns = 100 =>
               /\ widthLimitedFont(columns)[1]
                      = 15 * widthLimitedFont(columns)[2]
               /\ asciiFontSize = 1200

\* 130 columns are rendered at 11.54, the rounding of 11.538...
C19_Witness ==
    /\ lastOp = "render"
    /\ columns = 130
    /\ asciiFontSize = 1154

\* C20: the line-height that is emitted, rounded to 2 decimals, is never
\* below 0.75 times the base line-height 1.1, that is 0.825, for the font
\* size derived from any columns value and for any requested font size
\* passed to buildColorAsciiDocument.
C20_LineHeightFloor ==
    /\ asciiFontSize # 0 => 10 * asciiLineHeight >= 825
    /\ doc # NoDocument => 10 * doc.lineHeight >= 825

\* 600 columns are rendered at font size 3 and line-height 0.83, and the
\* document built for a requested size of 2.976 has font size 3 and
\* line-height 0.83.
C20_Witness ==
    /\ columns = 600
    /\ asciiFontSize = 300
    /\ asciiLineHeight = 83
    /\ doc.fontSize = 300
    /\ doc.lineHeight = 83
    /\ lastOp = "buildColorAsciiDocument"

\* The number of characters of a rendered row, times CHAR_ASPECT_RATIO,
\* times the font size, is within the effect of rounding the font size
\* (half a hundredth per character) of TARGET_WIDTH; in thousandths of a px.
RowWidthIsTarget ==
    LET width == ghostW * 6 * asciiFontSize
    IN  /\ width - 900000 <= 3 * ghostW
        /\ 900000 - width <= 3 * ghostW

\* C21 (as stated): for every columns >= 1, the characters per rendered row
\* times 0.6 times the derived font size equal 900 up to the rounding of the
\* font size.
C21_WidthIsTarget ==
    (Converted /\ error = "none" /\ columns >= 1) => RowWidthIsTarget

\* C21 (amended): for every columns from 125 to 500 (where the font size is
\* not clamped) and every conversion whose rows have exactly columns
\* characters, the characters per row times 0.6 times the derived font size
\* equal 900 up to the rounding of the font size.
C21_WidthIsTargetUnclamped ==
    (Converted /\ error = "none" /\ 125 <= columns /\ columns <= 500
        /\ ghostW = columns)
    => RowWidthIsTarget

\* 130 columns on a raster 260 wide: rows of 130 characters at 11.54 px.
C21_Witness ==
    /\ Converted /\ error = "none"
    /\ artW = 260 /\ columns = 130
    /\ ghostW = 130
    /\ Len(ascii) = 2 * 131
    /\ asciiFontSize = 1154

\* C22: the font size and the line-height that copyColorAscii and
\* downloadColorAscii write into the exported document, by
\* buildColorAsciiDocument(colorAsciiHtml, asciiFontSize), are numerically
\* equal to the asciiFontSize and asciiLineHeight of the on-screen preview,
\* for every columns value.
C22_ExportMatchesPreview ==
    lastOp \in {"copyColorAscii", "downloadColorAscii"} =>
        /\ doc.fontSize = asciiFontSize
        /\ doc.lineHeight = asciiLineHeight

\* The document downloaded at 130 columns: 11.54 px and line-height 1.06,
\* as in the preview.
C22_Witness ==
    /\ lastOp = "downloadColorAscii"
    /\ columns = 130
    /\ asciiFontSize = 1154
    /\ asciiLineHeight = 106
    /\ doc.fontSize = 1154
    /\ doc.lineHeight = 106
    /\ doc.content = colorAsciiHtml

----------------------------------------------------------------------------
(* Properties of the orientation.                                          *)

\* The index the quantizer gives the sample of column x with the invert flag
\* at inv, everything else as in the last conversion.
IndexAtInvert(x, inv) ==
    charIndex(ghostPx[1][x], densityBias, inv, Len(charset))

\* C27: toggling invert mirrors the palette index: for every sample, every
\* density bias in -100..100 and every palette of n >= 1 characters, the
\* index selected with invert = true plus the index selected with
\* invert = false is n - 1.
C27_InvertMirrorsIndex ==
    (Converted /\ error = "none" /\ ghostH = 1 /\ Len(charset) >= 1)
    => \A x \in 1..ghostW :
        IndexAtInvert(x, TRUE) + IndexAtInvert(x, FALSE) = Len(charset) - 1

----------------------------------------------------------------------------
(* Properties of the canonical raster.                                     *)

\* C23: after any sequence of brush strokes, eraser strokes, Clear,
\* completed image imports and window resizes, the art canvas is fully
\* opaque at every pixel and its width and height are those of the visible
\* canvas and of the window.
C23_RasterOpaqueAndSized ==
    /\ artW = canvasW /\ artH = canvasH
    /\ artW = winW /\ artH = winH
    /\ Len(artPx) = artH /\ Len(artAlpha) = artH
    /\ \A y \in 1..artH :
        /\ Len(artPx[y]) = artW /\ Len(artAlpha[y]) = artW
        /\ \A x \in 1..artW : artAlpha[y][x] = 255

\* An eraser stroke over an imported image: the visible canvas is
\* transparent where the art canvas is white and opaque.
C23_Witness ==
    /\ lastOp = "onMouseMove" /\ eraser /\ brushSize = 2
    /\ artW = 4 /\ artH = 2
    /\ canvasAlpha[1][1] = 0
    /\ artAlpha[1][1] = 255 /\ artPx[1][1] = White
    /\ artPx[1][4] = White /\ artPx[2][3] = Green

----------------------------------------------------------------------------
(* Properties of the conversion as a whole.                                *)

\* C24: a conversion only reads its inputs: toASCII changes neither the art
\* canvas, nor the visible canvas, nor any style setting (nor the window,
\* the pen or the pending imports); and a conversion that follows a
\* conversion with no event in between leaves ascii and colorAsciiHtml as
\* they are.
C24_ConversionOnlyReads ==
    [][lastOp' = "toASCII" =>
          /\ UNCHANGED <<art, canvas, style>>
          /\ UNCHANGED <<window, pen, pending>>
          /\ lastOp = "toASCII" => UNCHANGED result]_vars

\* A successful inverted conversion of a painted raster while an import is
\* pending and the button is down.
C24_Witness ==
    /\ Converted /\ error = "none"
    /\ invert
    /\ artPx # Solid(artW, artH, White)
    /\ ascii # <<>>
    /\ pending # <<>>
    /\ drawing

----------------------------------------------------------------------------
(* The raster as the composite of the session's strokes and imports.       *)

\* The pixels that the rasters before and after a step have in common.
CommonPixels ==
    {p \in (1..MaxH) \X (1..MaxW) :
        /\ p[1] <= artH /\ p[1] <= artH'
        /\ p[2] <= artW /\ p[2] <= artW'}

\* C25: paint stays in the raster until Clear: on every step that is not
\* Clear and is not taken with the eraser selected, a pixel of the raster
\* that carries paint (is not white) still carries paint afterwards, whether
\* the step is a stroke, the choice or the load of an image, or a resize of
\* the window.
C25_PaintStaysUntilClear ==
    [][(lastOp' # "clearCanvas" /\ ~eraser) =>
          \A p \in CommonPixels :
              artPx[p[1]][p[2]] # White => artPx'[p[1]][p[2]] # White]_vars

----------------------------------------------------------------------------
(* The two results as one artifact.                                        *)

\* The plain and the coloured result are both empty or both not, and have
\* the same number of rows.
ResultsAgree ==
    /\ (ascii = <<>>) <=> (colorAsciiHtml = <<>>)
    /\ Newlines(ascii) = Newlines(colorAsciiHtml)

\* C26: ascii and colorAsciiHtml come from the same conversion or the same
\* Clear: in every state one is empty exactly when the other is and they
\* have the same number of rows, and a step that is neither a conversion
\* nor Clear (a stroke, an import, a style change, a dialog close) changes
\* neither of them.
C26_ResultsFromOneConversion ==
    /\ []ResultsAgree
    /\ [][lastOp' \notin {"toASCII", "clearCanvas"} => UNCHANGED result]_vars

\* Results of one row of four cells, kept through a stroke that followed
\* the conversion while an import was pending and the dialog was closed.
C26_Witness ==
    /\ lastOp = "onMouseMove"
    /\ artPx # Solid(artW, artH, White)
    /\ pending # <<>>
    /\ ~showDialog
    /\ invert
    /\ Len(ascii) = 5
    /\ Newlines(ascii) = 1
    /\ Newlines(colorAsciiHtml) = 1

----------------------------------------------------------------------------
(* Imports that overlap in time.                                           *)

\* C28: once every load has finished, the raster is the most recently
\* chosen image over white with every stroke painted since it was chosen
\* (latest.px, kept by handleUpload and drawLine and forgotten by Clear and
\* by a resize).
C28_LatestImageWins ==
    (pending = <<>> /\ latest.chosen) => artPx = latest.px

----------------------------------------------------------------------------
(* Strokes and the pointer events.                                         *)

MoveEvents == {"onMouseMove", "onTouchMove"}
DownEvents == {"onMouseDown", "onTouchStart"}
UpEvents == {"onMouseUp", "onMouseLeave", "onTouchEnd"}

\* A step changes a pixel of the visible canvas or of the raster.
Paints == canvas' # canvas \/ art' # art

\* The step has painted one and the same segment, from the stored last
\* position to the new one, on the visible canvas and on the raster: the
\* pixels the segment covers take the brush colour on both (with the eraser
\* they become transparent on the visible canvas and white on the raster),
\* and every other pixel of both is as it was.
SameSegmentOnBoth ==
    \E dots \in BOOLEAN :
        \A y \in 1..canvasH, x \in 1..canvasW :
            IF (last # last' \/ dots)
                   /\ Hit(x - 1, y - 1, last, last', brushSize)
            THEN /\ canvasPx'[y][x] = (IF eraser THEN Black ELSE brushColor)
                 /\ canvasAlpha'[y][x] = (IF eraser THEN 0 ELSE 255)
                 /\ artPx'[y][x] = (IF eraser THEN White ELSE brushColor)
                 /\ artAlpha'[y][x] = 255
            ELSE /\ canvasPx'[y][x] = canvasPx[y][x]
                 /\ canvasAlpha'[y][x] = canvasAlpha[y][x]
                 /\ artPx'[y][x] = artPx[y][x]
                 /\ artAlpha'[y][x] = artAlpha[y][x]

\* C29: a segment is painted only on a move event that follows a down or a
\* touch start with no up, leave or end in between: the drawing flag is
\* raised only by a down or a start and is lowered by every up, leave and
\* end, and a step paints only if it is a move taken with the flag raised.
\* Whenever a segment is painted the stored last position is not null, and
\* the same segment is applied to the visible canvas and to the raster.
C29_StrokesOnlyWhileDown ==
    /\ [][(drawing' /\ ~drawing) => lastOp' \in DownEvents]_vars
    /\ [][lastOp' \in UpEvents => ~drawing']_vars
    /\ [][Paints => (lastOp' \in MoveEvents /\ drawing /\ last # Null)]_vars
    /\ [][(lastOp' \in MoveEvents /\ drawing) =>
              (last # Null /\ SameSegmentOnBoth)]_vars

\* A touch move has painted a green segment of width 2 from (0, 0) to
\* (2, 0) on both canvases, leaving the far corner as it was.
C29_Witness ==
    /\ lastOp = "onTouchMove"
    /\ drawing
    /\ last = <<2, 0>>
    /\ brushSize = 2
    /\ ~eraser
    /\ canvasPx[1][1] = Green /\ artPx[1][1] = Green
    /\ canvasPx[1][2] = Green /\ artPx[1][2] = Green
    /\ artPx[2][4] = White
    /\ canvasPx[2][4] # Green

----------------------------------------------------------------------------
(* "Clear".                                                                *)

\* The plain text of a grid of ow x oh cells that all hold the character c.
UniformText(c, ow, oh) ==
    Flatten([y \in 1..oh |-> [x \in 1..ow |-> c] \o <<"\n">>])

\* C30: Clear makes the raster all white and ascii and colorAsciiHtml
\* empty and changes no style setting; and a conversion that directly
\* follows Clear with invert = false and densityBias >= 0 and runs to its
\* end gives the first character of the palette in every cell, in the plain
\* text and in the spans of the markup, whatever was drawn or imported
\* before.
C30_ClearThenConvertIsBlank ==
    /\ [][lastOp' = "clearCanvas" =>
              /\ artPx' = Solid(artW', artH', White)
              /\ ascii' = <<>>
              /\ colorAsciiHtml' = <<>>
              /\ UNCHANGED style]_vars
    /\ [][(/\ lastOp = "clearCanvas"
           /\ lastOp' = "toASCII"
           /\ error' = "none"
           /\ ~invert
           /\ densityBias >= 0) =>
              /\ ascii' = UniformText(charset[1], ghostW', ghostH')
              /\ SpanContents(colorAsciiHtml', 1) =
                     [k \in 1..(ghostW' * ghostH') |->
                         EscapedForm(charset[1])]]_vars

\* A conversion at Density Bias 100 without Invert has given four times the
\* first palette character, on a raster that "Clear" whitened after an
\* image had been chosen (the image's load is still pending, and "Clear"
\* has forgotten the choice) and a stroke had been started.
C30_Witness ==
    /\ Converted /\ error = "none"
    /\ ~invert
    /\ densityBias = 100
    /\ \E i \in 1..Len(pending) : pending[i].ok
    /\ latest = NoWork
    /\ drawing
    /\ artPx = Solid(artW, artH, White)
    /\ ascii = UniformText(charset[1], 4, 1)

====
